---- MODULE Spec2Model ----
(***************************************************************************)
(* The conversation session engine of the two chat shells:                 *)
(*   src/claude_cli.py  (terminal shell: main menu + chat_loop)            *)
(*   src/app.py         (graphical shell: one script run per interaction)  *)
(* Both keep their records in the same directory "conversations".          *)
(*                                                                         *)
(* Representation choices.                                                 *)
(*  - A text is [ch, len]: len characters; texts with different ch are     *)
(*    different strings.  Slicing and concatenation act on len.            *)
(*  - Money is counted in millionths of a price unit, so the division by   *)
(*    1_000_000 of calculate_cost is the unit, not an operation.           *)
(*  - The clock `now` counts sub-second ticks.  strftime("%Y%m%d_%H%M%S")  *)
(*    keeps the whole second, isoformat() keeps second and sub-second.     *)
(*  - A file of the directory is [valid, data]; a file that json.load      *)
(*    cannot parse (a truncated write) has valid = FALSE.                  *)
(***************************************************************************)
EXTENDS Integers, Sequences, FiniteSets, TLC

\* ---- bounds of the model
TicksPerSecond == 2   \* sub-second ticks per second of the clock
MaxTurns == 2         \* Spec: turns submitted in one run of the program
TurnTime == 1         \* Spec: the clock stops ticking here
StoreTurns == 1       \* SpecStore: turns submitted in one run of the program
MaxTime == 4          \* SpecStore: the clock stops ticking here
LoadTime == 2         \* SpecLoad: the clock stops ticking here
MaxTok == 1           \* the token count the service reports when not 0
ReplyLen == 2         \* fragments of one streamed reply

VARIABLES
    shell,            \* "cli" (claude_cli.py) or "gui" (app.py)
    pc,               \* position of the program
    messages,         \* the in-memory history
    conversation_id,
    total_cost,
    model_name,       \* cli: model_name; gui: st.session_state.selected_model
    model_id,         \* cli: model_id of chat_loop; gui: unused
    full_response,    \* text accumulated from the stream
    reply,            \* the reply the service is streaming (in flight)
    store,            \* the directory: file name -> file
    now,              \* the clock
    conversations,    \* the listing on display: what list_conversations()
                      \* returned to the handler that ran last, <<>> if none
    turns,            \* turns submitted so far
    turn,             \* history variable: the turn in progress / just ended
    last              \* history variable: the last operation performed

vars == <<shell, pc, messages, conversation_id, total_cost, model_name, model_id,
          full_response, reply, store, now, conversations, turns, turn, last>>

\* ---- texts
Text(c, n) == [ch |-> c, len |-> n]
EmptyText == Text("", 0)
\* s += fragment (one fragment is one character of the reply)
Concat(s, frag) == Text(frag.ch, s.len + frag.len)
\* s[:n]
Slice(s, n) == IF s.len > n THEN Text(s.ch, n) ELSE s

\* what the user types: a short text in Spec, in SpecStore one that is longer
\* than the preview of either shell
UserInputs == {Text("hi", 3)}
StoreInputs == {Text("essay", 61)}
ReplyChars == {"x"}
Replies == {Text(c, ReplyLen) : c \in ReplyChars}
\* the token counts the service reports: none, or MaxTok
Tokens == {0, MaxTok}

NoId == -1

\* ---- models and prices
ModelNames == {"Claude Sonnet 4.5", "Claude Opus 4", "Claude Sonnet 4"}
MenuChoices == {"1", "2", "3"}
\* the models the user picks: Spec tries two, SpecStore one
ChoicesTried == {"1", "2"}
NamesTried == {"Claude Sonnet 4.5", "Claude Opus 4"}
StoreChoices == {"1"}
StoreNames == {"Claude Sonnet 4.5"}

\* app.py MODELS: display name -> model id
MODELS(name) ==
    CASE name = "Claude Sonnet 4.5" -> "claude-sonnet-4-5-20250929"
      [] name = "Claude Opus 4"     -> "claude-opus-4-20250514"
      [] name = "Claude Sonnet 4"   -> "claude-sonnet-4-20250514"

\* claude_cli.py MODELS: menu key -> (display name, model id)
CLI_MODELS(key) ==
    CASE key = "1" -> <<"Claude Sonnet 4.5", "claude-sonnet-4-5-20250929">>
      [] key = "2" -> <<"Claude Opus 4", "claude-opus-4-20250514">>
      [] key = "3" -> <<"Claude Sonnet 4", "claude-sonnet-4-20250514">>

\* pricing.get(model, (3, 15))
pricing(model) ==
    CASE model = "claude-sonnet-4-5-20250929" -> <<3, 15>>
      [] model = "claude-opus-4-20250514"     -> <<15, 75>>
      [] model = "claude-sonnet-4-20250514"   -> <<3, 15>>
      [] OTHER                                -> <<3, 15>>

\* (mutant) the output tokens are credited instead of charged
calculate_cost_credits_output(input_tokens, output_tokens, model) ==
    LET p == pricing(model)
    IN  (input_tokens * p[1]) - (output_tokens * p[2])

\* in millionths of a price unit
calculate_cost(input_tokens, output_tokens, model) ==
    LET p == pricing(model)
    IN  (input_tokens * p[1]) + (output_tokens * p[2])

\* (mutant) app.py's table prices an unlisted model as the dearest one
app_pricing_default_opus(model) ==
    CASE model = "claude-sonnet-4-5-20250929" -> <<3, 15>>
      [] model = "claude-opus-4-20250514"     -> <<15, 75>>
      [] model = "claude-sonnet-4-20250514"   -> <<3, 15>>
      [] OTHER                                -> <<15, 75>>

\* app.py's copy of the table: pricing.get(model, (3, 15))
app_pricing(model) ==
    CASE model = "claude-sonnet-4-5-20250929" -> <<3, 15>>
      [] model = "claude-opus-4-20250514"     -> <<15, 75>>
      [] model = "claude-sonnet-4-20250514"   -> <<3, 15>>
      [] OTHER                                -> <<3, 15>>

\* app.py's copy of calculate_cost, in millionths of a price unit
app_calculate_cost(input_tokens, output_tokens, model) ==
    LET p == app_pricing(model)
    IN  (input_tokens * p[1]) + (output_tokens * p[2])

\* the copy of calculate_cost the shell sh calls
CostOf(sh, input_tokens, output_tokens, model) ==
    IF sh = "cli" THEN calculate_cost(input_tokens, output_tokens, model)
    ELSE app_calculate_cost(input_tokens, output_tokens, model)

\* ---- clock
\* (mutant) the id keeps the sub-second part of the clock
strftime_with_subsecond(t) == t

\* datetime.now().strftime("%Y%m%d_%H%M%S")
strftime(t) == t \div TicksPerSecond
\* datetime.now().isoformat()
isoformat(t) == <<t \div TicksPerSecond, t % TicksPerSecond>>
\* a < b on two isoformat strings (lexicographic)
IsoLess(a, b) == a[1] < b[1] \/ (a[1] = b[1] /\ a[2] < b[2])

\* ---- the directory
Message(r, c) == [role |-> r, content |-> c]

Data(id, created, model, msgs, cost) ==
    [id |-> id, created |-> created, model |-> model, messages |-> msgs,
     total_cost |-> cost]

\* json.dump(data, f): a complete, parsable document
JsonDump(data) == [valid |-> TRUE, data |-> data]
\* what is left of a file when the write stops after open(filename, 'w')
TruncatedFile == [valid |-> FALSE, data |-> Data(NoId, <<0, 0>>, "", <<>>, 0)]

EmptyDir == [k \in {} |-> TruncatedFile]
WriteFile(dir, name, file) ==
    [k \in (DOMAIN dir) \cup {name} |-> IF k = name THEN file ELSE dir[k]]

\* (mutant) the record keeps the model id instead of the display name
save_conversation_stores_model_id(dir, id, msgs, name, cost, t) ==
    WriteFile(dir, id, JsonDump(Data(id, isoformat(t), MODELS(name), msgs, cost)))

\* save_conversation(conversation_id, messages, model_name, total_cost)
save_conversation(dir, id, msgs, name, cost, t) ==
    WriteFile(dir, id, JsonDump(Data(id, isoformat(t), name, msgs, cost)))

\* load_conversation: filename.exists()
Exists(dir, id) == id \in DOMAIN dir
\* json.load(f) raises on a file that is no JSON document
JsonLoadRaises(file) == ~file.valid
JsonLoad(file) == file.data

\* ---- list_conversations
\* the orders in which STORAGE_DIR.glob("*.json") can yield the files
ScanOrders(dir) ==
    LET n == Cardinality(DOMAIN dir)
    IN  {o \in [1..n -> DOMAIN dir] : \A i, j \in 1..n : i # j => o[i] # o[j]}

\* characters of the preview: 60 in the terminal shell, 50 in the graphical one
PreviewBudget(sh) == IF sh = "cli" THEN 60 ELSE 50

\* the first user message, cut to the budget and followed by "..." when longer
Preview(msgs, sh) ==
    LET users == {i \in 1..Len(msgs) : msgs[i].role = "user"}
    IN  IF users = {}
        THEN [text |-> Text("New conversation", 16), dots |-> FALSE]
        ELSE LET first == CHOOSE i \in users : \A j \in users : i <= j
                 c == msgs[first].content
             IN  IF c.len > PreviewBudget(sh)
                 THEN [text |-> Slice(c, PreviewBudget(sh)), dots |-> TRUE]
                 ELSE [text |-> c, dots |-> FALSE]

\* the dict appended for one file (the graphical shell's has no "model")
Summary(data, sh) ==
    IF sh = "cli"
    THEN [id |-> data.id, created |-> data.created,
          preview |-> Preview(data.messages, sh), cost |-> data.total_cost,
          model |-> data.model]
    ELSE [id |-> data.id, created |-> data.created,
          preview |-> Preview(data.messages, sh), cost |-> data.total_cost]

\* (mutant) reverse=True is forgotten: ascending order
InsertDesc_ascending(s, x) ==
    LET p == Cardinality({i \in 1..Len(s) : ~IsoLess(x.created, s[i].created)})
    IN  SubSeq(s, 1, p) \o <<x>> \o SubSeq(s, p + 1, Len(s))

\* the place sorted(..., reverse=True) gives x among the already sorted s: the
\* sort is stable, so x follows every element whose key is not smaller
InsertDesc(s, x) ==
    LET p == Cardinality({i \in 1..Len(s) : ~IsoLess(s[i].created, x.created)})
    IN  SubSeq(s, 1, p) \o <<x>> \o SubSeq(s, p + 1, Len(s))

RECURSIVE sorted(_)
\* sorted(conversations, key=lambda x: x["created"], reverse=True)
sorted(s) ==
    IF s = <<>> THEN <<>>
    ELSE InsertDesc(sorted(SubSeq(s, 1, Len(s) - 1)), s[Len(s)])

\* json.load raises on some file of the scan: the listing is aborted
ListRaises(dir) == \E k \in DOMAIN dir : JsonLoadRaises(dir[k])

\* the value list_conversations() returns when no file makes it raise
list_conversations(dir, order, sh) ==
    sorted([i \in 1..Len(order) |-> Summary(JsonLoad(dir[order[i]]), sh)])

\* conversations[:n]
FirstN(s, n) == SubSeq(s, 1, IF Len(s) < n THEN Len(s) ELSE n)

\* ---- history variables
\* turn: state (none, open, completed, failed, interrupted), the conversation
\* as it was when the turn was submitted (id, messages, total_cost), where the
\* turn was when it failed (at), what the service reported for it, the
\* request of the turn (model, the messages sent), the messages that were
\* stored under the conversation's id when the turn was submitted, and the
\* directory as it was then (dir)
NoTurn == [state |-> "none", id |-> NoId, messages |-> <<>>, total_cost |-> 0,
           at |-> "", input_tokens |-> 0, output_tokens |-> 0, model |-> "",
           sent |-> <<>>, stored |-> <<>>, dir |-> EmptyDir]

\* ---- the program
Init ==
    /\ shell \in {"cli", "gui"}
    /\ pc = IF shell = "cli" THEN "menu" ELSE "chat"
    /\ messages = <<>>
    /\ conversation_id = NoId
    /\ total_cost = 0
    /\ model_name = "Claude Sonnet 4.5"
    /\ model_id = ""
    /\ full_response = EmptyText
    /\ reply = EmptyText
    /\ store = EmptyDir
    /\ now = 0
    /\ conversations = <<>>
    /\ turns = 0
    /\ turn = NoTurn
    /\ last = "start"

\* the clock advances between any two steps of the program
Tick(maxTime) ==
    /\ now < maxTime
    /\ now' = now + 1
    /\ UNCHANGED <<shell, pc, messages, conversation_id, total_cost, model_name,
                   model_id, full_response, reply, store, conversations, turns,
                   turn, last>>

\* the model id the request carries and the cost is computed with
CurrentModelId == IF shell = "cli" THEN model_id ELSE MODELS(model_name)

\* ---- claude_cli.py: main()
\* menu choice 1
CliNew(choice) ==
    /\ shell = "cli" /\ pc = "menu"
    /\ model_name' = CLI_MODELS(choice)[1]
    /\ model_id' = CLI_MODELS(choice)[2]
    /\ conversation_id' = strftime(now)
    /\ messages' = <<>>
    /\ total_cost' = 0
    /\ pc' = "chat"
    /\ conversations' = <<>>
    /\ turn' = NoTurn
    /\ last' = "new"
    /\ UNCHANGED <<shell, full_response, reply, store, now, turns>>

\* the model id main() finds for a stored display name
CliModelIdOf(name) ==
    IF \E k \in MenuChoices : CLI_MODELS(k)[1] = name
    THEN CLI_MODELS(CHOOSE k \in MenuChoices : CLI_MODELS(k)[1] = name)[2]
    ELSE CLI_MODELS("1")[2]

\* menu choices 2 and 3 when a file of the directory cannot be parsed: the
\* exception leaves main() and the program exits with status 1
CliListFatal ==
    /\ shell = "cli" /\ pc = "menu"
    /\ ListRaises(store)
    /\ pc' = "stopped"
    /\ conversations' = <<>>
    /\ turn' = NoTurn
    /\ last' = "list_raised"
    /\ UNCHANGED <<shell, messages, conversation_id, total_cost, model_name,
                   model_id, full_response, reply, store, now, turns>>

\* menu choice 3 (and choice 2 when nothing is stored or the selection is invalid)
CliList(order) ==
    /\ shell = "cli" /\ pc = "menu"
    /\ ~ListRaises(store)
    /\ conversations' = list_conversations(store, order, shell)
    /\ last' = "list"
    /\ UNCHANGED <<shell, pc, messages, conversation_id, total_cost, model_name,
                   model_id, full_response, reply, store, now, turns, turn>>

\* menu choice 2 with a valid selection idx
CliLoad(order, idx) ==
    /\ shell = "cli" /\ pc = "menu"
    /\ ~ListRaises(store)
    /\ LET convs == list_conversations(store, order, shell)
       IN  /\ idx \in 1..Len(FirstN(convs, 20))
           /\ Exists(store, convs[idx].id)
           /\ LET conv_data == JsonLoad(store[convs[idx].id])
              IN  /\ model_name' = conv_data.model
                  /\ model_id' = CliModelIdOf(conv_data.model)
                  /\ messages' = conv_data.messages
                  /\ conversation_id' = conv_data.id
                  /\ total_cost' = conv_data.total_cost
    /\ pc' = "chat"
    /\ conversations' = <<>>
    /\ turn' = NoTurn
    /\ last' = "load"
    /\ UNCHANGED <<shell, full_response, reply, store, now, turns>>

\* the state of a process that has just started (or is gone)
Fresh ==
    /\ messages' = <<>>
    /\ conversation_id' = NoId
    /\ total_cost' = 0
    /\ model_name' = "Claude Sonnet 4.5"
    /\ model_id' = ""
    /\ full_response' = EmptyText
    /\ reply' = EmptyText
    /\ conversations' = <<>>
    /\ turn' = NoTurn

\* menu choice 4 of the terminal shell; the graphical shell's session is closed
Quit ==
    /\ \/ shell = "cli" /\ pc = "menu"
       \/ shell = "gui" /\ pc = "chat"
    /\ pc' = "stopped"
    /\ Fresh
    /\ last' = "quit"
    /\ UNCHANGED <<shell, store, now, turns>>

\* the program is started again, as either shell, on the same directory
Launch(sh) ==
    /\ pc = "stopped"
    /\ shell' = sh
    /\ pc' = IF sh = "cli" THEN "menu" ELSE "chat"
    /\ Fresh
    /\ last' = "start"
    /\ UNCHANGED <<store, now, turns>>

\* chat_loop returns: its frame (messages, total_cost, ...) is gone
LeaveChat ==
    /\ pc' = "menu"
    /\ messages' = <<>>
    /\ conversation_id' = NoId
    /\ total_cost' = 0
    /\ model_id' = ""
    /\ model_name' = "Claude Sonnet 4.5"
    /\ full_response' = EmptyText
    /\ reply' = EmptyText

\* 'save', or 'exit' answered y/n, as the whole first line; EOF on input; Ctrl-C
\* at the prompt, answered y/n
CliLeave(save) ==
    /\ shell = "cli" /\ pc = "chat"
    /\ store' = IF save
                THEN save_conversation(store, conversation_id, messages,
                                       model_name, total_cost, now)
                ELSE store
    /\ LeaveChat
    /\ turn' = NoTurn
    /\ last' = IF save THEN "save" ELSE "leave"
    /\ UNCHANGED <<shell, now, conversations, turns>>

\* ---- one turn (chat_loop of claude_cli.py, the chat input handler of app.py)
\* the messages argument of the request: role and content of every message
api_messages(msgs) ==
    [i \in 1..Len(msgs) |-> Message(msgs[i].role, msgs[i].content)]

\* the messages of the parsable record stored under id, <<>> without one
StoredMessages(dir, id) ==
    IF Exists(dir, id) /\ ~JsonLoadRaises(dir[id])
    THEN JsonLoad(dir[id]).messages ELSE <<>>

\* (mutant) the request is built before the user message is appended
OpenTurn_sends_before_append(text, r, maxTurns) ==
    /\ pc = "chat"
    /\ turns < maxTurns
    /\ messages' = Append(messages, Message("user", text))
    /\ full_response' = EmptyText
    /\ reply' = r
    /\ pc' = "streaming"
    /\ turns' = turns + 1
    /\ turn' = [NoTurn EXCEPT !.state = "open", !.id = conversation_id,
                              !.messages = messages, !.total_cost = total_cost,
                              !.model = CurrentModelId,
                              !.sent = api_messages(messages),
                              !.stored = StoredMessages(store, conversation_id),
                              !.dir = store]
    /\ last' = "submit"

\* the user message is appended and the streaming request is opened
OpenTurn(text, r, maxTurns) ==
    /\ pc = "chat"
    /\ turns < maxTurns
    /\ messages' = Append(messages, Message("user", text))
    /\ full_response' = EmptyText
    /\ reply' = r
    /\ pc' = "streaming"
    /\ turns' = turns + 1
    /\ turn' = [NoTurn EXCEPT !.state = "open", !.id = conversation_id,
                              !.messages = messages, !.total_cost = total_cost,
                              !.model = CurrentModelId,
                              !.sent = api_messages(messages'),
                              !.stored = StoredMessages(store, conversation_id),
                              !.dir = store]
    /\ last' = "submit"

CliSubmit(text, r, maxTurns) ==
    /\ shell = "cli"
    /\ OpenTurn(text, r, maxTurns)
    /\ UNCHANGED <<shell, conversation_id, total_cost, model_name, model_id,
                   store, now, conversations>>

\* app.py renders the sidebar in every script run: conversations = list_conversations()
GuiSidebar(order) ==
    conversations' = IF ListRaises(store) THEN <<>>
                     ELSE list_conversations(store, order, shell)

\* the script run of a chat input first renders the sidebar, which lists
GuiSubmit(text, r, order, maxTurns) ==
    /\ shell = "gui"
    /\ ~ListRaises(store)
    /\ GuiSidebar(order)
    /\ OpenTurn(text, r, maxTurns)
    /\ UNCHANGED <<shell, conversation_id, total_cost, model_name, model_id,
                   store, now>>

\* for text in stream.text_stream: full_response += text
Fragment ==
    /\ pc = "streaming"
    /\ full_response.len < reply.len
    /\ full_response' = Concat(full_response, Text(reply.ch, 1))
    /\ UNCHANGED <<shell, pc, messages, conversation_id, total_cost, model_name,
                   model_id, reply, store, now, conversations, turns, turn, last>>

\* (mutant) the cost of the turn is added twice
StreamEnd_adds_twice(input_tokens, output_tokens) ==
    /\ pc = "streaming"
    /\ full_response = reply
    /\ total_cost' = total_cost
                     + 2 * CostOf(shell, input_tokens, output_tokens, CurrentModelId)
    /\ turn' = [turn EXCEPT !.input_tokens = input_tokens,
                            !.output_tokens = output_tokens]
    /\ pc' = "costed"
    /\ UNCHANGED <<shell, messages, conversation_id, model_name, model_id,
                   full_response, reply, store, now, conversations, turns, last>>

\* the text stream is exhausted: usage is read and the cost added
StreamEnd(input_tokens, output_tokens) ==
    /\ pc = "streaming"
    /\ full_response = reply
    /\ total_cost' = total_cost
                     + CostOf(shell, input_tokens, output_tokens, CurrentModelId)
    /\ turn' = [turn EXCEPT !.input_tokens = input_tokens,
                            !.output_tokens = output_tokens]
    /\ pc' = "costed"
    /\ UNCHANGED <<shell, messages, conversation_id, model_name, model_id,
                   full_response, reply, store, now, conversations, turns, last>>

\* messages.append({"role": "assistant", "content": full_response})
AppendAssistant ==
    /\ pc = "costed"
    /\ messages' = Append(messages, Message("assistant", full_response))
    /\ pc' = "appended"
    /\ UNCHANGED <<shell, conversation_id, total_cost, model_name, model_id,
                   full_response, reply, store, now, conversations, turns, turn,
                   last>>

\* app.py save_conversation(): an id is taken from the clock when there is none
GuiId(id, t) == IF id = NoId THEN strftime(t) ELSE id

\* the id the save after the exchange writes under
SaveId == IF shell = "cli" THEN conversation_id ELSE GuiId(conversation_id, now)

\* (mutant) the record is written without the reply just appended
AutoSave_before_append ==
    /\ pc = "appended"
    /\ conversation_id' = SaveId
    /\ store' = save_conversation(store, SaveId,
                                  SubSeq(messages, 1, Len(messages) - 1),
                                  model_name, total_cost, now)
    /\ pc' = "chat"
    /\ turn' = [turn EXCEPT !.state = "completed"]
    /\ last' = "turn"
    /\ UNCHANGED <<shell, messages, total_cost, model_name, model_id,
                   full_response, reply, now, conversations, turns>>

\* save_conversation after the exchange
AutoSave ==
    /\ pc = "appended"
    /\ conversation_id' = SaveId
    /\ store' = save_conversation(store, SaveId, messages, model_name,
                                  total_cost, now)
    /\ pc' = "chat"
    /\ turn' = [turn EXCEPT !.state = "completed"]
    /\ last' = "turn"
    /\ UNCHANGED <<shell, messages, total_cost, model_name, model_id,
                   full_response, reply, now, conversations, turns>>

\* (mutant) the terminal shell's handler pops twice
except_handler_pops_twice(msgs, sh) ==
    IF sh = "cli" THEN SubSeq(msgs, 1, Len(msgs) - 2) ELSE msgs

\* (mutant) the handler keeps what the stream had delivered as the reply
except_handler_keeps_partial(msgs, sh) ==
    Append(msgs, Message("assistant", full_response))

\* except Exception: the terminal shell pops the last message, the graphical
\* shell only reports the error
except_handler(msgs, sh) ==
    IF sh = "cli" THEN SubSeq(msgs, 1, Len(msgs) - 1) ELSE msgs

\* (mutant) the handler saves the conversation before it reports the error
StreamFail_saves ==
    /\ pc \in {"streaming", "costed"}
    /\ messages' = except_handler(messages, shell)
    /\ conversation_id' = SaveId
    /\ store' = save_conversation(store, SaveId, messages, model_name,
                                  total_cost, now)
    /\ pc' = "chat"
    /\ turn' = [turn EXCEPT !.state = "failed", !.at = pc]
    /\ last' = "turn"
    /\ UNCHANGED <<shell, total_cost, model_name, model_id, full_response,
                   reply, now, conversations, turns>>

\* the request, the stream, the usage read or the statistics display raises
StreamFail ==
    /\ pc \in {"streaming", "costed"}
    /\ messages' = except_handler(messages, shell)
    /\ pc' = "chat"
    /\ turn' = [turn EXCEPT !.state = "failed", !.at = pc]
    /\ last' = "turn"
    /\ UNCHANGED <<shell, conversation_id, total_cost, model_name, model_id,
                   full_response, reply, store, now, conversations, turns>>

\* save_conversation raises: in open() (the file is untouched) or in
\* json.dump (the file is left truncated)
SaveFail(truncated) ==
    /\ pc = "appended"
    /\ conversation_id' = SaveId
    /\ store' = IF truncated THEN WriteFile(store, SaveId, TruncatedFile)
                ELSE store
    /\ messages' = except_handler(messages, shell)
    /\ pc' = "chat"
    /\ turn' = [turn EXCEPT !.state = "failed", !.at = pc]
    /\ last' = "turn"
    /\ UNCHANGED <<shell, total_cost, model_name, model_id, full_response,
                   reply, now, conversations, turns>>

\* except KeyboardInterrupt of chat_loop: Ctrl-C anywhere in a turn (also
\* inside the write of the save), then "Save conversation? (y/n)"
CliInterrupt(save, truncated) ==
    /\ shell = "cli"
    /\ pc \in {"streaming", "costed", "appended"}
    /\ truncated => pc = "appended"
    /\ LET dir == IF truncated
                  THEN WriteFile(store, conversation_id, TruncatedFile)
                  ELSE store
       IN  store' = IF save
                    THEN save_conversation(dir, conversation_id, messages,
                                           model_name, total_cost, now)
                    ELSE dir
    /\ LeaveChat
    /\ turn' = [turn EXCEPT !.state = "interrupted", !.at = pc]
    /\ last' = IF save THEN "interrupt_save" ELSE "interrupt"
    /\ UNCHANGED <<shell, now, conversations, turns>>

\* the script run is stopped at a display call of the turn (stop button, or
\* another widget used while the reply streams): session state stays as it is
GuiInterrupt ==
    /\ shell = "gui"
    /\ pc \in {"streaming", "costed"}
    /\ pc' = "chat"
    /\ turn' = [turn EXCEPT !.state = "interrupted", !.at = pc]
    /\ last' = "interrupt"
    /\ UNCHANGED <<shell, messages, conversation_id, total_cost, model_name,
                   model_id, full_response, reply, store, now, conversations,
                   turns>>

\* ---- app.py: the sidebar
\* the model selectbox; the script run then lists the directory
GuiSelectModel(name, order) ==
    /\ shell = "gui" /\ pc = "chat"
    /\ model_name' = name
    /\ GuiSidebar(order)
    /\ last' = IF ListRaises(store) THEN "list_raised" ELSE "list"
    /\ UNCHANGED <<shell, pc, messages, conversation_id, total_cost, model_id,
                   full_response, reply, store, now, turns, turn>>

\* the "New Conversation" button, and the script run st.rerun() starts
GuiNew(order) ==
    /\ shell = "gui" /\ pc = "chat"
    /\ messages' = <<>>
    /\ conversation_id' = NoId
    /\ total_cost' = 0
    /\ GuiSidebar(order)
    /\ turn' = NoTurn
    /\ last' = "new"
    /\ UNCHANGED <<shell, pc, model_name, model_id, full_response, reply, store,
                   now, turns>>

\* the button of one listed conversation: load_conversation(conv['id'])
GuiLoad(order, idx) ==
    /\ shell = "gui" /\ pc = "chat"
    /\ ~ListRaises(store)
    /\ LET convs == list_conversations(store, order, shell)
       IN  /\ idx \in 1..Len(FirstN(convs, 10))
           /\ conversations' = convs
           /\ Exists(store, convs[idx].id)
           /\ LET data == JsonLoad(store[convs[idx].id])
              IN  /\ messages' = data.messages
                  /\ conversation_id' = data.id
                  /\ total_cost' = data.total_cost
                  /\ model_name' = data.model
    /\ turn' = NoTurn
    /\ last' = "load"
    /\ UNCHANGED <<shell, pc, model_id, full_response, reply, store, now, turns>>

\* a chat input or a load button while a file of the directory cannot be
\* parsed: the script run ends in the sidebar with the exception
GuiRunRaises ==
    /\ shell = "gui" /\ pc = "chat"
    /\ ListRaises(store)
    /\ conversations' = <<>>
    /\ last' = "list_raised"
    /\ UNCHANGED <<shell, pc, messages, conversation_id, total_cost, model_name,
                   model_id, full_response, reply, store, now, turns, turn>>

\* every step of the program but the clock's and the submission of a turn
Step(choices, names) ==
    \/ \E c \in choices : CliNew(c)
    \/ CliListFatal
    \/ \E o \in ScanOrders(store) : CliList(o)
    \/ \E o \in ScanOrders(store) : \E i \in DOMAIN o : CliLoad(o, i)
    \/ Quit
    \/ \E sh \in {"cli", "gui"} : Launch(sh)
    \/ \E b \in BOOLEAN : CliLeave(b)
    \/ Fragment
    \/ \E i, o \in Tokens : StreamEnd(i, o)
    \/ AppendAssistant
    \/ AutoSave
    \/ StreamFail
    \/ \E b \in BOOLEAN : SaveFail(b)
    \/ \E b, c \in BOOLEAN : CliInterrupt(b, c)
    \/ GuiInterrupt
    \/ \E n \in names, o \in ScanOrders(store) : GuiSelectModel(n, o)
    \/ \E o \in ScanOrders(store) : GuiNew(o)
    \/ \E o \in ScanOrders(store) : \E i \in DOMAIN o : GuiLoad(o, i)
    \/ GuiRunRaises

Submit(maxTurns, inputs) ==
    \/ \E t \in inputs, r \in Replies : CliSubmit(t, r, maxTurns)
    \/ \E t \in inputs, r \in Replies, o \in ScanOrders(store) :
          GuiSubmit(t, r, o, maxTurns)

\* runs of up to MaxTurns turns within TurnTime ticks of the clock
Next ==
    \/ Tick(TurnTime)
    \/ Submit(MaxTurns, UserInputs)
    \/ Step(ChoicesTried, NamesTried)

Spec == Init /\ [][Next]_vars

\* runs of up to StoreTurns turns within MaxTime ticks of the clock
NextStore ==
    \/ Tick(MaxTime)
    \/ Submit(StoreTurns, StoreInputs)
    \/ Step(StoreChoices, StoreNames)

SpecStore == Init /\ [][NextStore]_vars

\* ---- load_conversation of an id whose file is gone
\* Python's None
None == [none |-> TRUE]

\* claude_cli.py: what load_conversation(id) returns (the file parsable)
load_conversation(dir, id) ==
    IF Exists(dir, id) THEN JsonLoad(dir[id]) ELSE None

\* app.py: load_conversation has no return statement
app_load_conversation(dir, id) == None

\* what the shell's load_conversation(id) hands back to its caller
LoadReturns(sh, dir, id) ==
    IF sh = "cli" THEN load_conversation(dir, id)
    ELSE app_load_conversation(dir, id)

\* the environment: a file of the directory is removed by something other than
\* the program (which never removes one), while a listing is on display
Unlink(k) ==
    /\ pc \in {"select", "sidebar"}
    /\ k \in DOMAIN store
    /\ store' = [j \in (DOMAIN store) \ {k} |-> store[j]]
    /\ UNCHANGED <<shell, pc, messages, conversation_id, total_cost, model_name,
                   model_id, full_response, reply, now, conversations, turns,
                   turn, last>>

\* menu choice 2 up to the prompt "Select conversation"
CliChoose(order) ==
    /\ shell = "cli" /\ pc = "menu"
    /\ ~ListRaises(store)
    /\ list_conversations(store, order, shell) # <<>>
    /\ conversations' = list_conversations(store, order, shell)
    /\ pc' = "select"
    /\ last' = "choose"
    /\ UNCHANGED <<shell, messages, conversation_id, total_cost, model_name,
                   model_id, full_response, reply, store, now, turns, turn>>

\* the answer to the prompt is no number of the list: back to the menu
CliSelectInvalid ==
    /\ shell = "cli" /\ pc = "select"
    /\ pc' = "menu"
    /\ conversations' = <<>>
    /\ last' = "invalid"
    /\ UNCHANGED <<shell, messages, conversation_id, total_cost, model_name,
                   model_id, full_response, reply, store, now, turns, turn>>

\* the answer is idx: load_conversation(conversations[idx]['id']), then
\* chat_loop if conv_data, else the menu again
CliSelect(idx) ==
    /\ shell = "cli" /\ pc = "select"
    /\ idx \in 1..Len(FirstN(conversations, 20))
    /\ LET id == conversations[idx].id
           conv_data == load_conversation(store, id)
       IN  /\ Exists(store, id) => ~JsonLoadRaises(store[id])
           /\ IF conv_data # None
              THEN /\ model_name' = conv_data.model
                   /\ model_id' = CliModelIdOf(conv_data.model)
                   /\ messages' = conv_data.messages
                   /\ conversation_id' = conv_data.id
                   /\ total_cost' = conv_data.total_cost
                   /\ pc' = "chat"
                   /\ last' = "load"
              ELSE /\ UNCHANGED <<model_name, model_id, messages,
                                  conversation_id, total_cost>>
                   /\ pc' = "menu"
                   /\ last' = "load_absent"
    /\ conversations' = <<>>
    /\ turn' = NoTurn
    /\ UNCHANGED <<shell, full_response, reply, store, now, turns>>

\* app.py: the script run of a click on a load button, up to the buttons
GuiRun(order) ==
    /\ shell = "gui" /\ pc = "chat"
    /\ ~ListRaises(store)
    /\ list_conversations(store, order, shell) # <<>>
    /\ conversations' = list_conversations(store, order, shell)
    /\ pc' = "sidebar"
    /\ last' = "choose"
    /\ UNCHANGED <<shell, messages, conversation_id, total_cost, model_name,
                   model_id, full_response, reply, store, now, turns, turn>>

\* the clicked button is reached: load_conversation(conv['id']); st.rerun()
GuiButton(idx) ==
    /\ shell = "gui" /\ pc = "sidebar"
    /\ idx \in 1..Len(FirstN(conversations, 10))
    /\ LET id == conversations[idx].id
       IN  /\ Exists(store, id) => ~JsonLoadRaises(store[id])
           /\ IF Exists(store, id)
              THEN LET data == JsonLoad(store[id])
                   IN  /\ messages' = data.messages
                       /\ conversation_id' = data.id
                       /\ total_cost' = data.total_cost
                       /\ model_name' = data.model
                       /\ last' = "load"
              ELSE /\ UNCHANGED <<messages, conversation_id, total_cost,
                                  model_name>>
                   /\ last' = "load_absent"
    /\ pc' = "chat"
    /\ conversations' = <<>>
    /\ turn' = NoTurn
    /\ UNCHANGED <<shell, model_id, full_response, reply, store, now, turns>>

\* runs in which a file can vanish between a listing and the load of an entry
NextLoad ==
    \/ Tick(LoadTime)
    \/ Submit(StoreTurns, StoreInputs)
    \/ Step(StoreChoices, StoreNames)
    \/ \E k \in DOMAIN store : Unlink(k)
    \/ \E o \in ScanOrders(store) : CliChoose(o)
    \/ CliSelectInvalid
    \/ \E i \in DOMAIN conversations : CliSelect(i)
    \/ \E o \in ScanOrders(store) : GuiRun(o)
    \/ \E i \in DOMAIN conversations : GuiButton(i)

SpecLoad == Init /\ [][NextLoad]_vars

\* ---- the terminal shell on a directory that holds a record written with a
\* display name its MODELS lacks (by another version of the catalogue, or by
\* hand): the case main() provides for with "if not model_id"
ForeignName == "Claude 3 Opus"
ForeignRecord ==
    Data(0, <<0, 0>>, ForeignName,
         <<Message("user", Text("hi", 3)), Message("assistant", Text("x", ReplyLen))>>,
         0)

InitForeign ==
    /\ shell = "cli"
    /\ pc = "menu"
    /\ messages = <<>>
    /\ conversation_id = NoId
    /\ total_cost = 0
    /\ model_name = "Claude Sonnet 4.5"
    /\ model_id = ""
    /\ full_response = EmptyText
    /\ reply = EmptyText
    /\ store = WriteFile(EmptyDir, 0, JsonDump(ForeignRecord))
    /\ now = TicksPerSecond
    /\ conversations = <<>>
    /\ turns = 0
    /\ turn = NoTurn
    /\ last = "start"

\* runs of up to MaxTurns turns within TurnTime ticks of the clock
NextForeign ==
    \/ Tick(TicksPerSecond + TurnTime)
    \/ \E c \in ChoicesTried : CliNew(c)
    \/ CliListFatal
    \/ \E o \in ScanOrders(store) : CliList(o)
    \/ \E o \in ScanOrders(store) : \E i \in DOMAIN o : CliLoad(o, i)
    \/ \E b \in BOOLEAN : CliLeave(b)
    \/ \E t \in UserInputs, r \in Replies : CliSubmit(t, r, MaxTurns)
    \/ Fragment
    \/ \E i, o \in Tokens : StreamEnd(i, o)
    \/ AppendAssistant
    \/ AutoSave
    \/ StreamFail
    \/ \E b \in BOOLEAN : SaveFail(b)
    \/ \E b, c \in BOOLEAN : CliInterrupt(b, c)

SpecForeign == InitForeign /\ [][NextForeign]_vars

\* ---- calculate_cost on its own: calls with arguments beyond those a turn
\* of the runs above supplies
Million == 1000000
CostTokens == {0, 1, 7, Million}
CostModels == {"claude-sonnet-4-5-20250929", "claude-opus-4-20250514",
               "claude-sonnet-4-20250514", "nonexistent-model-id"}

\* a shell about to call its calculate_cost with the arguments held in turn
InitCost ==
    /\ shell \in {"cli", "gui"}
    /\ pc = "cost_call"
    /\ messages = <<>>
    /\ conversation_id = NoId
    /\ total_cost = 0
    /\ model_name = "Claude Sonnet 4.5"
    /\ model_id = ""
    /\ full_response = EmptyText
    /\ reply = EmptyText
    /\ store = EmptyDir
    /\ now = 0
    /\ conversations = <<>>
    /\ turns = 0
    /\ turn \in {[NoTurn EXCEPT !.input_tokens = i, !.output_tokens = o,
                                !.model = m] :
                     i \in CostTokens, o \in CostTokens, m \in CostModels}
    /\ last = "start"

\* total_cost += cost, from a total of 0
CostCall ==
    /\ pc = "cost_call"
    /\ total_cost' = total_cost
                     + CostOf(shell, turn.input_tokens, turn.output_tokens, turn.model)
    /\ pc' = "cost_returned"
    /\ last' = "cost"
    /\ UNCHANGED <<shell, messages, conversation_id, model_name, model_id,
                   full_response, reply, store, now, conversations, turns, turn>>

SpecCost == InitCost /\ [][CostCall]_vars

\* ======================================================================
\* Properties

\* the turn just ended (nothing but the clock has moved since)
JustEnded(state) == last = "turn" /\ turn.state = state

\* the conversation is as it was when the turn was submitted
RolledBack == messages = turn.messages /\ total_cost = turn.total_cost

\* the parsable records of the directory
Records == {store[k].data : k \in {n \in DOMAIN store : store[n].valid}}

\* C1 (rollback invariant): after a turn of either shell whose streaming
\* request failed mid-stream, the message list is what it was before the turn
\* was submitted and total_cost is unchanged.
C1_Rollback ==
    (JustEnded("failed") /\ turn.at = "streaming") => RolledBack

\* C2 (append-then-cost invariant): after a turn that completed, the message
\* list is the one before the turn followed by the user message and one
\* assistant message holding the whole reply, and total_cost has grown by
\* calculate_cost of the turn's token counts and model id.
C2_AppendThenCost ==
    JustEnded("completed") =>
        LET n == Len(turn.messages)
        IN  /\ Len(messages) = n + 2
            /\ SubSeq(messages, 1, n) = turn.messages
            /\ messages[n + 1].role = "user"
            /\ messages[n + 2] = Message("assistant", reply)
            /\ total_cost = turn.total_cost
                   + calculate_cost(turn.input_tokens, turn.output_tokens, turn.model)

C2_Witness ==
    /\ JustEnded("completed")
    /\ Len(turn.messages) = 2
    /\ turn.output_tokens = MaxTok
    /\ turn.model = "claude-opus-4-20250514"

\* the assistant messages of a history
AssistantTexts(msgs) ==
    {msgs[i].content : i \in {j \in 1..Len(msgs) : msgs[j].role = "assistant"}}

\* C3 (no partial reply): every assistant message of the in-memory history and
\* of every stored record is a complete reply, never the text of a stream that
\* failed or was interrupted.
C3_NoPartialReply ==
    /\ AssistantTexts(messages) \subseteq Replies
    /\ \A d \in Records : AssistantTexts(d.messages) \subseteq Replies

\* a turn ended with a partial reply received, in a conversation whose
\* history and stored record hold a reply
C3_Witness ==
    /\ turn.state \in {"failed", "interrupted"}
    /\ full_response.len = 1
    /\ AssistantTexts(turn.messages) # {}
    /\ \E d \in Records : AssistantTexts(d.messages) # {}

\* user, assistant, user, assistant, ...: empty or ending on an assistant message
Alternates(msgs) ==
    /\ Len(msgs) % 2 = 0
    /\ \A i \in 1..Len(msgs) :
          msgs[i].role = (IF i % 2 = 1 THEN "user" ELSE "assistant")

\* C4 (stored histories alternate): every stored record's message list
\* alternates user, assistant and is empty or ends on an assistant message.
C4_StoredAlternate == \A d \in Records : Alternates(d.messages)

\* C5 (rollback at any point of steps 2-4): also after a turn that failed once
\* the stream had finished (the cost added, the assistant message appended,
\* the save raising), the conversation is as it was before the turn: no
\* message of the turn remains and total_cost has its value of before.
\* Stated for the terminal shell, the one with a rollback handler (the
\* graphical shell rolls nothing back at any point, see C1).
C5_RollbackAfterStream ==
    (shell = "cli" /\ JustEnded("failed") /\ turn.at \in {"costed", "appended"})
        => RolledBack

\* C5, the messages alone: the terminal shell's handler removes the user
\* message of the turn, whatever the point of the failure
C5_UserMessageRemoved ==
    (shell = "cli" /\ JustEnded("failed")) => messages = turn.messages

\* a step of the program (not of the clock) that ends the named operation
Did(op) == last' = op /\ now' = now

\* the step writes a parsable record into file i
SavedNow(i) ==
    /\ i \in DOMAIN store' /\ store'[i].valid
    /\ i \notin DOMAIN store \/ store[i] # store'[i]

\* the id a save writes under: the conversation's, or the clock's in the
\* graphical shell when the conversation has none yet
IdSaved == IF conversation_id # NoId THEN conversation_id ELSE strftime(now)

\* every save writes the in-memory conversation, with `created` the save time
C6_SaveStep ==
    \A i \in DOMAIN store' : SavedNow(i) =>
        /\ i = IdSaved
        /\ store'[i].data =
               Data(i, isoformat(now), model_name, messages, total_cost)

\* every load makes the stored record of the chosen id the in-memory conversation
C6_LoadStep ==
    Did("load") =>
        /\ conversation_id' \in DOMAIN store /\ store[conversation_id'].valid
        /\ LET d == store[conversation_id'].data
           IN  /\ conversation_id' = d.id
               /\ model_name' = d.model
               /\ messages' = d.messages
               /\ total_cost' = d.total_cost

\* C6 (round trip): a save stores id, model, messages and total_cost of the
\* conversation as they are, `created` being the time of the save, and a load
\* of that id gives back exactly the stored id, model, messages and total_cost.
C6_RoundTrip == [][C6_SaveStep /\ C6_LoadStep]_vars

\* a conversation of one turn or more, with a cost, has been loaded
C6_Witness ==
    /\ last = "load"
    /\ Len(messages) >= 2
    /\ total_cost > 0
    /\ store[conversation_id].data.created # <<conversation_id, 0>>

\* the step stays within the conversation in memory
SameConversation ==
    /\ pc \notin {"menu", "stopped"} /\ pc' \notin {"menu", "stopped"}
    /\ ~Did("new") /\ ~Did("load")

\* C7 (cost monotonicity): within one conversation total_cost never decreases,
\* and the record a completed turn stores carries the total_cost reached.
C7_CostMonotone ==
    [][/\ SameConversation => total_cost' >= total_cost
       /\ (pc = "appended" /\ turn'.state = "completed") =>
             /\ store'[conversation_id'].valid
             /\ store'[conversation_id'].data.total_cost = total_cost']_vars

\* two completed turns in a row, both with a cost
C7_Witness ==
    /\ JustEnded("completed")
    /\ turn.total_cost > 0
    /\ total_cost > turn.total_cost
    /\ store[conversation_id].data.total_cost = total_cost

\* the files json.load cannot parse
Corrupt == {k \in DOMAIN store : ~store[k].valid}

\* C8 (listing resilience): a listing of a directory with N >= 1 valid records
\* and one corrupt file returns the N valid summaries and the program goes on.
C8_ListingResilience ==
    (last \in {"list", "list_raised"} /\ Cardinality(Corrupt) = 1 /\ Records # {})
        => /\ last = "list"
           /\ pc # "stopped"
           /\ Len(conversations) = Cardinality(Records)

\* C9 as claimed (order by creation time): a listing of three conversations,
\* whose ids are the seconds of their creation, has them newest first, whatever
\* turns and saves came after their creation (no two records bearing the same
\* stamp, the case of C10).
C9_ListedByCreation ==
    (/\ last = "list" /\ Len(conversations) = 3
     /\ \A i, j \in 1..3 : i # j => conversations[i].created # conversations[j].created)
        => \A i, j \in 1..3 : i < j => conversations[i].id > conversations[j].id

\* s is in descending order of `created`
CreatedDescending(s) ==
    \A i, j \in 1..Len(s) : i < j => ~IsoLess(s[i].created, s[j].created)

\* C9 as amended (order by last save): every save stamps the record with the
\* time of the save, and a listing that returns holds one summary per stored
\* record, in descending order of that stamp.
C9_ListedByLastSave ==
    [][/\ \A i \in DOMAIN store' :
             SavedNow(i) => store'[i].data.created = isoformat(now)
       /\ Did("list") =>
             /\ CreatedDescending(conversations')
             /\ Len(conversations') = Cardinality(DOMAIN store)
             /\ \A k \in DOMAIN store : \E i \in 1..Len(conversations') :
                   /\ conversations'[i].id = k
                   /\ conversations'[i].created = store[k].data.created]_vars

\* three conversations listed, an older one ahead of a newer one because it
\* was saved last
C9_Witness ==
    /\ last = "list"
    /\ Len(conversations) = 3
    /\ IsoLess(conversations[2].created, conversations[1].created)
    /\ IsoLess(conversations[3].created, conversations[2].created)
    /\ \E i, j \in 1..3 : i < j /\ conversations[i].id < conversations[j].id

\* C10 (tie-break): a listing is in descending order of `created`, and records
\* with equal `created` are in descending order of id.
C10_TieBreakById ==
    last = "list" =>
        \A i, j \in 1..Len(conversations) : i < j =>
            \/ IsoLess(conversations[j].created, conversations[i].created)
            \/ /\ conversations[i].created = conversations[j].created
               /\ conversations[i].id > conversations[j].id

\* the price table of the specification: model id, input price, output price
\* per million tokens
PriceTable == {<<"claude-sonnet-4-5-20250929", 3, 15>>,
               <<"claude-opus-4-20250514", 15, 75>>,
               <<"claude-sonnet-4-20250514", 3, 15>>}

\* (inPrice, outPrice) of a model id: its row of the table, (3, 15) without one
PriceFor(model) ==
    IF \E row \in PriceTable : row[1] = model
    THEN LET row == CHOOSE r \in PriceTable : r[1] = model IN <<row[2], row[3]>>
    ELSE <<3, 15>>

\* C11 (pricing): calculate_cost(inputTokens, outputTokens, modelId) is
\* inputTokens*inPrice + outputTokens*outPrice millionths, the prices being the
\* table's and (3, 15) for a model id the table lacks; it is 90 units for
\* (1_000_000, 1_000_000, "claude-opus-4-20250514") and 0 for (0, 0, any
\* model); the copies of the two shells return the same value.
C11_Pricing ==
    pc = "cost_returned" =>
        LET i == turn.input_tokens
            o == turn.output_tokens
            m == turn.model
        IN  /\ total_cost = i * PriceFor(m)[1] + o * PriceFor(m)[2]
            /\ (i = Million /\ o = Million /\ m = "claude-opus-4-20250514")
                  => total_cost = 90 * Million
            /\ (i = 0 /\ o = 0) => total_cost = 0
            /\ calculate_cost(i, o, m) = app_calculate_cost(i, o, m)

\* the graphical shell's copy has priced tokens of a model the table lacks
C11_Witness ==
    /\ pc = "cost_returned"
    /\ shell = "gui"
    /\ turn.model = "nonexistent-model-id"
    /\ turn.input_tokens = Million
    /\ total_cost > 3 * Million

\* C12 (interrupt = failure): a Ctrl-C while the reply streams rolls the turn
\* back like a stream failure, so the record written by the save offered after
\* it holds the history of before the turn: neither the user message of the
\* interrupted turn nor any partial reply.
C12_InterruptRollsBack ==
    (last = "interrupt_save" /\ turn.at = "streaming") =>
        /\ Exists(store, turn.id) /\ store[turn.id].valid
        /\ store[turn.id].data.messages = turn.messages
        /\ AssistantTexts(store[turn.id].data.messages) \subseteq Replies

\* C13 (not found): load_conversation(id) of an id on display whose file is
\* gone raises nothing, leaves messages, id, total_cost, model and the
\* directory as they are, and hands its caller an outcome that differs from
\* the outcome of loading any record that is stored.
C13_NotFound ==
    [][Did("load_absent") =>
          /\ UNCHANGED <<messages, conversation_id, total_cost, model_name, store>>
          /\ \A i \in DOMAIN conversations :
                ~Exists(store, conversations[i].id) =>
                    \A k \in DOMAIN store : store[k].valid =>
                        LoadReturns(shell, store, k)
                            # LoadReturns(shell, store, conversations[i].id)]_vars

\* C14 (cost of completed turns only): total_cost is the sum of the costs of
\* the turns whose assistant message is in the history; in particular a
\* conversation at rest, and a stored record, whose history holds no assistant
\* message has a total_cost of 0.
C14_CostOfCompletedTurns ==
    /\ (pc = "chat" /\ AssistantTexts(messages) = {}) => total_cost = 0
    /\ \A d \in Records : AssistantTexts(d.messages) = {} => d.total_cost = 0

\* C15 (persisted after every completed turn): when a turn has completed, the
\* record stored under the conversation's id holds the id, the model display
\* name, the whole history with the new assistant message and the updated
\* total_cost of the session, so a load of that id would give the session
\* exactly its present state (in the terminal shell the model id as well).
C15_StoredEqualsMemory ==
    JustEnded("completed") =>
        /\ Exists(store, conversation_id)
        /\ ~JsonLoadRaises(store[conversation_id])
        /\ LET data == JsonLoad(store[conversation_id])
           IN  /\ data.id = conversation_id
               /\ data.model = model_name
               /\ data.messages = messages
               /\ data.messages[Len(data.messages)] = Message("assistant", reply)
               /\ data.total_cost = total_cost
               /\ shell = "cli" => CliModelIdOf(data.model) = model_id

\* the second turn of a conversation of the graphical shell has completed,
\* both turns with a cost
C15_Witness ==
    /\ JustEnded("completed")
    /\ shell = "gui"
    /\ Len(messages) = 4
    /\ turn.total_cost > 0
    /\ turn.input_tokens = MaxTok

\* s is a prefix of t
IsPrefix(s, t) == Len(s) <= Len(t) /\ SubSeq(t, 1, Len(s)) = s

\* C16 (append-only history): within one conversation of a session every step
\* either leaves the history as it is, or appends to it, or - only while a
\* turn is ending in failure - removes its last message, which that turn had
\* appended; so the history of before a turn is a prefix of the history after
\* it, whether the turn completed or failed.
C16_AppendOnly ==
    [][SameConversation =>
          /\ \/ IsPrefix(messages, messages')
             \/ /\ turn.state = "open" /\ turn'.state = "failed"
                /\ messages' = SubSeq(messages, 1, Len(messages) - 1)
                /\ Len(messages) > Len(turn.messages)
          /\ turn'.state # "none" => IsPrefix(turn'.messages, messages')]_vars

\* a turn of the terminal shell on a conversation of one exchange has failed
\* in the save, and the handler has popped a message
C16_Witness ==
    /\ JustEnded("failed")
    /\ shell = "cli"
    /\ turn.at = "appended"
    /\ Len(turn.messages) = 2
    /\ Len(messages) = 3

\* C17 (back to Idle): every submitted turn ends Completed or Failed, and when
\* it has ended the session is in its chat loop again, on the same
\* conversation, ready to accept the next turn.
C17_BackToIdle ==
    [][(turn.state = "open" /\ turn'.state # "open") =>
          /\ pc' = "chat"
          /\ conversation_id' \in {conversation_id, strftime(now)}
          /\ IsPrefix(turn.messages, messages')]_vars

\* C18 (request after append): the request of a turn carries, with the model
\* id of the session, the history of before the turn followed by the user
\* message of the turn and nothing else; that is the in-memory history while
\* the reply streams, the user message having been appended first.
C18_RequestCarriesHistory ==
    turn.state = "open" =>
        /\ Len(turn.sent) = Len(turn.messages) + 1
        /\ IsPrefix(turn.messages, turn.sent)
        /\ turn.sent[Len(turn.sent)].role = "user"
        /\ IsPrefix(turn.sent, messages)
        /\ pc = "streaming" => turn.sent = messages
        /\ turn.model = CurrentModelId
        /\ turn.model = MODELS(model_name)

\* the second request of a conversation of the graphical shell, for Claude
\* Opus 4, is open
C18_Witness ==
    /\ pc = "streaming"
    /\ shell = "gui"
    /\ Len(turn.sent) = 3
    /\ turn.sent[2].role = "assistant"
    /\ turn.model = "claude-opus-4-20250514"

\* C19 (the record names the model used): the record a completed turn stores
\* carries as `model` the display name of the model whose id the request of
\* that turn was sent with, also in a conversation loaded from storage and
\* continued, whatever display name its record carried.
C19_RecordNamesModelUsed ==
    JustEnded("completed") =>
        LET name == store[conversation_id].data.model
        IN  /\ name \in ModelNames
            /\ MODELS(name) = turn.model

\* C20 (same-second ids): a new id is the whole second of the clock, taken
\* without a look at the directory, so two sessions that take their id in the
\* same second share it; and a save replaces whatever is stored under the id
\* by the history of the saving session and touches no other file, so after
\* the later session's save the earlier one's messages are stored nowhere.
C20_SameSecondOverwrites ==
    [][/\ (Did("new") /\ shell = "cli") =>
             conversation_id' = now \div TicksPerSecond
       /\ (pc = "appended" /\ conversation_id = NoId /\ conversation_id' # NoId) =>
             conversation_id' = now \div TicksPerSecond
       /\ \A i \in DOMAIN store' : SavedNow(i) =>
             /\ store'[i].data.messages = messages
             /\ \A k \in (DOMAIN store') \ {i} :
                   k \in DOMAIN store /\ store'[k] = store[k]]_vars

\* a session started new in the second of an earlier one that had stored a
\* user message has completed its first turn: the record of their common id
\* holds the later session's history, and the earlier history is in no record
C20_Witness ==
    /\ JustEnded("completed")
    /\ turn.messages = <<>>
    /\ Len(turn.stored) = 1
    /\ conversation_id = turn.id
    /\ store[conversation_id].data.messages = messages
    /\ \A d \in Records : d.messages # turn.stored

\* C21 (a stream error writes nothing): when a turn has failed in the request,
\* in the stream or before the assistant message was appended, the directory
\* holds the files it held when the turn was submitted, each with the content
\* it had then; the conversation's own record, or its absence, included.
C21_FailureWritesNothing ==
    (JustEnded("failed") /\ turn.at \in {"streaming", "costed"}) =>
        /\ DOMAIN store = DOMAIN turn.dir
        /\ \A k \in DOMAIN store : store[k] = turn.dir[k]
        /\ StoredMessages(store, conversation_id) = turn.stored

\* the second turn of a stored conversation has failed in mid-stream, a part
\* of the reply received
C21_Witness ==
    /\ JustEnded("failed")
    /\ turn.at = "streaming"
    /\ full_response.len = 1
    /\ Len(turn.messages) = 2
    /\ Exists(store, conversation_id)
    /\ store[conversation_id].data.messages = turn.messages

====
